---- MODULE Spec2Model ----
(***************************************************************************)
(* A model of shadow (joshuadavidthomas/shadow): the alias registry kept   *)
(* in a TOML document, the interception symlinks, the admin commands       *)
(* add / remove / list, and the dispatch of a shadowed invocation.         *)
(*                                                                         *)
(* Strings the program only compares (command names, directories, flags)   *)
(* are TLA+ strings.  A replacement command line, which the program        *)
(* splits on whitespace, is a sequence of one-character strings.           *)
(*                                                                         *)
(* The sources name the same things in two ways (Alias / Shadow,           *)
(* AliasNotFound / ShadowNotFound, AliasExists / DuplicateCommand,         *)
(* aliases() / shadows()); the model uses the names of aliases.rs and      *)
(* config.rs.                                                              *)
(***************************************************************************)
EXTENDS Integers, Sequences, FiniteSets, TLC

\* ------------------------------------------------------------------ bounds

\* Longest argument list given to ShadowedArgs::from_env on its own.
MaxArgs == 4
\* Longest argument list of a whole shadowed invocation.
MaxShadowArgs == 2
\* Longest replacement command line, in characters.
MaxCmdLen == 3
\* Most processes one command line leads to, each spawned by the one before.
MaxDepth == 4

\* ------------------------------------------------------------ value spaces

\* An absent string (Option::None of a name, a path, an error).
None == "None"

\* An absent record (no document, no config, no alias, no child process).
Nil == [nil |-> TRUE]

\* Command names that can be shadowed.
Names == {"gs", "ll"}

\* Directories a symlink can be placed in.
Dirs == {"alt", "bin"}

\* Replacement command lines the admin commands are run with.
AdminReplacements == {<<"l", "s">>, <<" ">>}

\* Characters of a replacement command line.
CmdChars == {"l", "s", " "}

\* Elements of an argument list.
ArgWords == {"--raw", "-R", "foo", "bar"}

RECURSIVE SeqsUpTo(_, _)
SeqsUpTo(S, n) ==
    IF n = 0 THEN {<<>>}
    ELSE LET shorter == SeqsUpTo(S, n - 1)
         IN  shorter \cup {Append(s, x) : s \in {t \in shorter : Len(t) = n - 1}, x \in S}

\* Every ordering of a finite set, as sequences without repetition.
RECURSIVE Orderings(_)
Orderings(S) ==
    IF S = {} THEN {<<>>}
    ELSE UNION {{<<x>> \o t : t \in Orderings(S \ {x})} : x \in S}

\* ------------------------------------------------------------- error.rs

ExitCodeValue(code) ==
    CASE code = "Success" -> 0
      [] code = "GeneralError" -> 1
      [] code = "ConfigError" -> 2
      [] code = "InvalidArguments" -> 64
      [] code = "CommandNotFound" -> 127
      [] code = "CommandFailed" -> 128
      [] code = "DuplicateCommand" -> 129

ExitCodeFrom(error) ==
    CASE error = "AliasNotFound" -> "CommandNotFound"
      [] error = "CommandExecutionError" -> "CommandFailed"
      [] error = "ConfigError" -> "ConfigError"
      [] error = "InvalidReplacement" -> "InvalidArguments"
      [] error = "AliasExists" -> "DuplicateCommand"

Ok == [ok |-> TRUE, err |-> None]
Err(e) == [ok |-> FALSE, err |-> e]

\* ------------------------------------------------------------- Settings

\* Settings::default_bin_path(): the platform's executable directory.
default_bin_path == "bin"

\* The derived Default of Settings, which serde uses for an absent
\* [settings] table: an empty path and false.
SettingsDeriveDefault == [bin_path |-> "", always_use_raw |-> FALSE]

\* The inherent Settings::default(), which Config::new uses.
SettingsDefault == [bin_path |-> default_bin_path, always_use_raw |-> FALSE]

\* ------------------------------------------------------- Alias, Aliases

AliasNew(name, command, description, bin_path) ==
    [name |-> name, command |-> command, description |-> description,
     bin_path |-> bin_path]

\* Aliases is a HashMap<String, Alias>: a sequence of <<key, alias>> entries
\* with distinct keys, in the map's iteration order.
AliasesDefault == <<>>

Keys(aliases) == {aliases[i][1] : i \in DOMAIN aliases}

contains(aliases, original) == original \in Keys(aliases)

is_empty(aliases) == Len(aliases) = 0

Get(aliases, key) ==
    LET i == CHOOSE j \in DOMAIN aliases : aliases[j][1] = key
    IN  aliases[i][2]

find(aliases, original) ==
    IF contains(aliases, original)
    THEN [ok |-> TRUE, err |-> None, alias |-> Get(aliases, original)]
    ELSE [ok |-> FALSE, err |-> "AliasNotFound", alias |-> Nil]

\* The map as a function from its keys, forgetting the iteration order.
AsMap(aliases) == [k \in Keys(aliases) |-> Get(aliases, k)]

\* The orders a map with these contents can iterate in: the order of a
\* HashMap is that of its hash table, which the contents do not determine.
Arrangements(map) ==
    {[i \in 1..Len(o) |-> <<o[i], map[o[i]]>>] : o \in Orderings(DOMAIN map)}

\* HashMap::insert: the value under the key is set; the table may grow and
\* rehash, so the iteration order afterwards is any.
insert(aliases, key, alias) ==
    LET old == AsMap(aliases)
        new == [k \in Keys(aliases) \cup {key} |-> IF k = key THEN alias ELSE old[k]]
    IN  Arrangements(new)

\* HashMap::remove: the entry is erased in place; the others keep their slots.
RECURSIVE remove(_, _)
remove(aliases, key) ==
    IF aliases = <<>> THEN <<>>
    ELSE IF Head(aliases)[1] = key THEN remove(Tail(aliases), key)
    ELSE <<Head(aliases)>> \o remove(Tail(aliases), key)

\* ------------------------------------------------- the document (TOML)

CURRENT_VERSION == 1

NoDoc == Nil

\* The document as another process can find it while fs::write is at work:
\* File::create has truncated it and nothing is written yet, or write_all
\* has written a part of the text.
EmptyDoc == [f \in {} |-> TRUE]
TornDoc == [torn |-> TRUE]

\* Serialize for Alias: name is skipped, description and bin_path are
\* skipped when None.
SerializeAlias(alias) ==
    LET d == IF alias.description = None THEN {} ELSE {"description"}
        b == IF alias.bin_path = None THEN {} ELSE {"bin_path"}
    IN  [f \in {"command"} \cup d \cup b |-> alias[f]]

\* Serialize for Aliases: a table from key to alias table.
SerializeAliases(aliases) ==
    [k \in Keys(aliases) |-> SerializeAlias(Get(aliases, k))]

\* toml::to_string_pretty(config): the aliases table is skipped when empty.
Serialize(cfg) ==
    LET a == IF is_empty(cfg.aliases) THEN {} ELSE {"aliases"}
    IN  [f \in {"version", "settings"} \cup a |->
            CASE f = "version" -> cfg.version
              [] f = "settings" -> cfg.settings
              [] f = "aliases" -> SerializeAliases(cfg.aliases)]

\* Deserialize for Alias through AliasDef: the name is left empty.
DeserializeAlias(t) ==
    [name |-> "",
     command |-> t.command,
     description |-> IF "description" \in DOMAIN t THEN t.description ELSE None,
     bin_path |-> IF "bin_path" \in DOMAIN t THEN t.bin_path ELSE None]

\* Deserialize for Aliases: a fresh HashMap is filled from the table, then
\* every alias takes its key as its name.
DeserializeAliases(t) ==
    Arrangements([k \in DOMAIN t |-> [DeserializeAlias(t[k]) EXCEPT !.name = k]])

DeserializeSettings(t) ==
    [bin_path |-> IF "bin_path" \in DOMAIN t THEN t.bin_path ELSE default_bin_path,
     always_use_raw |-> IF "always_use_raw" \in DOMAIN t THEN t.always_use_raw ELSE FALSE]

\* toml::from_str::<Config>: absent fields take their serde defaults.
Deserialize(d) ==
    {[version |-> IF "version" \in DOMAIN d THEN d.version ELSE CURRENT_VERSION,
      settings |-> IF "settings" \in DOMAIN d THEN DeserializeSettings(d.settings)
                   ELSE SettingsDeriveDefault,
      aliases |-> a] :
        a \in IF "aliases" \in DOMAIN d THEN DeserializeAliases(d.aliases)
              ELSE {AliasesDefault}}

\* --------------------------------------------------------- the file system

\* What can be at a link path: nothing, a symlink to this executable, a
\* symlink to another existing file, a symlink whose target is missing, or
\* a regular file.
LinkKinds == {"none", "self", "other", "dangling", "file"}

\* Path::exists follows symlinks.
exists(kind) == kind \in {"self", "other", "file"}

\* fs::read_link succeeds on a symlink and yields its target.
read_link(kind) ==
    IF kind \in {"self", "other", "dangling"}
    THEN [ok |-> TRUE, target |-> kind]
    ELSE [ok |-> FALSE, target |-> None]

\* I/O calls that can fail; a command is run with at most one of them failing.
Faults == {"none", "read_config", "mkdir_config", "write_config", "probe",
           "mkdir_bin", "current_exe", "remove_file", "symlink"}

\* Alias::link_path on unix.
link_path(alias, bin_path) == <<bin_path, alias.name>>

\* The directory an alias's link lives in.
EffectiveBinPath(alias, settings) ==
    IF alias.bin_path # None THEN alias.bin_path ELSE settings.bin_path

create_symlink(alias, settings, lk, fault) ==
    LET bin_path == EffectiveBinPath(alias, settings)
        p == link_path(alias, bin_path)
        existing == read_link(lk[p])
        cleared == IF exists(lk[p]) THEN [lk EXCEPT ![p] = "none"] ELSE lk
        removed == IF exists(lk[p]) THEN <<"remove_file">> ELSE <<>>
    IN  IF fault = "mkdir_bin"
        THEN [res |-> Err("ConfigError"), links |-> lk, calls |-> <<>>]
        ELSE IF fault = "current_exe"
        THEN [res |-> Err("ConfigError"), links |-> lk, calls |-> <<>>]
        ELSE IF exists(lk[p]) /\ existing.ok /\ existing.target = "self"
             THEN [res |-> Ok, links |-> lk, calls |-> <<>>]
        ELSE IF exists(lk[p]) /\ fault = "remove_file"
             THEN [res |-> Err("ConfigError"), links |-> lk, calls |-> <<>>]
        \* symlink(2) fails when an entry is still at the path; its io::Error
        \* goes through `?`, that is From<io::Error>.
        ELSE IF fault = "symlink" \/ cleared[p] # "none"
             THEN [res |-> Err("CommandExecutionError"), links |-> cleared,
                   calls |-> removed]
        ELSE [res |-> Ok, links |-> [cleared EXCEPT ![p] = "self"],
              calls |-> removed \o <<"symlink">>]

\* Alias::remove_symlink.
remove_symlink(alias, settings, lk, fault) ==
    LET bin_path == EffectiveBinPath(alias, settings)
        p == link_path(alias, bin_path)
    IN  IF exists(lk[p])
        THEN IF fault = "remove_file"
             THEN [res |-> Err("CommandExecutionError"), links |-> lk, calls |-> <<>>]
             ELSE [res |-> Ok, links |-> [lk EXCEPT ![p] = "none"],
                   calls |-> <<"remove_file">>]
        ELSE [res |-> Ok, links |-> lk, calls |-> <<>>]

\* --------------------------------------------------------------- Config

\* save with the result of the write ignored.
saveIgnoresWriteError(cfg, d, fault) ==
    IF fault = "mkdir_config" THEN [res |-> Err("CommandExecutionError"), doc |-> d]
    ELSE IF fault = "write_config" THEN [res |-> Ok, doc |-> d]
    ELSE [res |-> Ok, doc |-> Serialize(cfg)]

\* save creating the document only when there is none (create_new), and
\* leaving one that is there as it is.
saveKeepsExisting(cfg, d, fault) ==
    IF fault = "mkdir_config" THEN [res |-> Err("CommandExecutionError"), doc |-> d]
    ELSE IF fault = "write_config" THEN [res |-> Err("ConfigError"), doc |-> d]
    ELSE IF d # NoDoc THEN [res |-> Ok, doc |-> d]
    ELSE [res |-> Ok, doc |-> Serialize(cfg)]

\* Config::save: the parent directory is made, then the whole document is
\* written over the old one.  d is the document on disk before the call.
save(cfg, d, fault) ==
    IF fault = "mkdir_config" THEN [res |-> Err("CommandExecutionError"), doc |-> d]
    ELSE IF fault = "write_config" THEN [res |-> Err("ConfigError"), doc |-> d]
    ELSE [res |-> Ok, doc |-> Serialize(cfg)]

\* Config::new returning the default configuration without saving it.
ConfigNewWithoutSave(d, fault) ==
    [res |-> Ok,
     config |-> [version |-> CURRENT_VERSION, settings |-> SettingsDefault,
                 aliases |-> AliasesDefault],
     doc |-> d]

\* Config::new.
ConfigNew(d, fault) ==
    LET cfg == [version |-> CURRENT_VERSION, settings |-> SettingsDefault,
                aliases |-> AliasesDefault]
        s == save(cfg, d, fault)
    IN  [res |-> s.res, config |-> IF s.res.ok THEN cfg ELSE Nil, doc |-> s.doc]

migrate(cfg) == cfg

\* Config::load: the outcomes of loading from document d.
load(d, fault) ==
    IF d # NoDoc
    THEN IF fault = "read_config"
         THEN {[res |-> Err("CommandExecutionError"), config |-> Nil, doc |-> d]}
         ELSE IF d = TornDoc
         THEN {[res |-> Err("ConfigError"), config |-> Nil, doc |-> d]}
         ELSE {[res |-> Ok,
                config |-> IF c.version < CURRENT_VERSION THEN migrate(c) ELSE c,
                doc |-> d] : c \in Deserialize(d)}
    ELSE {ConfigNew(d, fault)}

\* Config::add without the insert: the config is saved as it was.
ConfigAddWithoutInsert(cfg, alias, d, fault) ==
    LET name == alias.name
        s == save(cfg, d, fault)
    IN  IF contains(cfg.aliases, name)
        THEN {[res |-> Err("AliasExists"), config |-> cfg, doc |-> d]}
        ELSE {[res |-> s.res, config |-> cfg, doc |-> s.doc]}

\* Config::add: the outcomes of adding alias to cfg.
ConfigAdd(cfg, alias, d, fault) ==
    LET name == alias.name
    IN  IF contains(cfg.aliases, name)
        THEN {[res |-> Err("AliasExists"), config |-> cfg, doc |-> d]}
        ELSE {LET c == [cfg EXCEPT !.aliases = a]
                  s == save(c, d, fault)
              IN  [res |-> s.res, config |-> c, doc |-> s.doc] :
                    a \in insert(cfg.aliases, name, alias)}

\* Config::remove with HashMap::clear in the place of HashMap::remove.
ConfigRemoveClears(cfg, name, d, fault) ==
    IF ~contains(cfg.aliases, name)
    THEN [res |-> Err("AliasNotFound"), config |-> cfg, doc |-> d]
    ELSE LET c == [cfg EXCEPT !.aliases = AliasesDefault]
             s == save(c, d, fault)
         IN  [res |-> s.res, config |-> c, doc |-> s.doc]

\* Config::remove.
ConfigRemove(cfg, name, d, fault) ==
    IF ~contains(cfg.aliases, name)
    THEN [res |-> Err("AliasNotFound"), config |-> cfg, doc |-> d]
    ELSE LET c == [cfg EXCEPT !.aliases = remove(cfg.aliases, name)]
             s == save(c, d, fault)
         IN  [res |-> s.res, config |-> c, doc |-> s.doc]

\* ---------------------------------------------------------- commands.rs

\* Add::execute without its first check, leaving the duplicate to Config::add.
AddExecuteWithoutCheck(cfg, d, lk, original, replacement, bin_path, fault) ==
    LET bp == IF bin_path # None /\ bin_path = cfg.settings.bin_path THEN None
              ELSE bin_path
        shadow == AliasNew(original, replacement, None, bp)
        link == create_symlink(shadow, cfg.settings, lk, fault)
    IN  IF fault = "probe"
        THEN {[exit |-> "CommandFailed", config |-> cfg, doc |-> d, links |-> lk,
               alias |-> Nil, added |-> FALSE, failed |-> "probe"]}
        ELSE IF ~link.res.ok
        THEN {[exit |-> ExitCodeFrom(link.res.err), config |-> cfg, doc |-> d,
               links |-> link.links, alias |-> Nil, added |-> FALSE,
               failed |-> "symlink"]}
        ELSE {[exit |-> IF r.res.ok THEN "Success" ELSE ExitCodeFrom(r.res.err),
               config |-> r.config, doc |-> r.doc, links |-> link.links,
               alias |-> shadow, added |-> r.res.ok,
               failed |-> IF r.res.ok THEN None ELSE "config"] :
                 r \in ConfigAdd(cfg, shadow, d, fault)}

\* Add::execute: the outcomes of the add command.  The probe spawns the
\* first word of original (fault "probe": it cannot be spawned); original
\* is a command name, so it has a first word.
AddExecute(cfg, d, lk, original, replacement, bin_path, fault) ==
    LET bp == IF bin_path # None /\ bin_path = cfg.settings.bin_path THEN None
              ELSE bin_path
        shadow == AliasNew(original, replacement, None, bp)
        link == create_symlink(shadow, cfg.settings, lk, fault)
    IN  IF contains(cfg.aliases, original)
        THEN {[exit |-> "DuplicateCommand", config |-> cfg, doc |-> d, links |-> lk,
               alias |-> Nil, added |-> FALSE, failed |-> "check"]}
        ELSE IF fault = "probe"
        THEN {[exit |-> "CommandFailed", config |-> cfg, doc |-> d, links |-> lk,
               alias |-> Nil, added |-> FALSE, failed |-> "probe"]}
        ELSE IF ~link.res.ok
        THEN {[exit |-> ExitCodeFrom(link.res.err), config |-> cfg, doc |-> d,
               links |-> link.links, alias |-> Nil, added |-> FALSE,
               failed |-> "symlink"]}
        ELSE {[exit |-> IF r.res.ok THEN "Success" ELSE ExitCodeFrom(r.res.err),
               config |-> r.config, doc |-> r.doc, links |-> link.links,
               alias |-> shadow, added |-> r.res.ok,
               failed |-> IF r.res.ok THEN None ELSE "config"] :
                 r \in ConfigAdd(cfg, shadow, d, fault)}

\* Remove::execute taking an absent alias for removed already.
RemoveExecuteAbsentIsSuccess(cfg, d, lk, original, fault) ==
    LET f == find(cfg.aliases, original)
        unlink == remove_symlink(f.alias, cfg.settings, lk, fault)
        r == ConfigRemove(cfg, original, d, fault)
    IN  IF ~f.ok
        THEN [exit |-> "Success", config |-> cfg, doc |-> d, links |-> lk,
              failed |-> None]
        ELSE IF ~unlink.res.ok
        THEN [exit |-> ExitCodeFrom(unlink.res.err), config |-> cfg, doc |-> d,
              links |-> unlink.links, failed |-> "symlink"]
        ELSE [exit |-> IF r.res.ok THEN "Success" ELSE ExitCodeFrom(r.res.err),
              config |-> r.config, doc |-> r.doc, links |-> unlink.links,
              failed |-> IF r.res.ok THEN None ELSE "config"]

\* Remove::execute.  Its bin_path argument is never read.
RemoveExecute(cfg, d, lk, original, fault) ==
    LET f == find(cfg.aliases, original)
        unlink == remove_symlink(f.alias, cfg.settings, lk, fault)
        r == ConfigRemove(cfg, original, d, fault)
    IN  IF ~f.ok
        THEN [exit |-> ExitCodeFrom(f.err), config |-> cfg, doc |-> d, links |-> lk,
              failed |-> "check"]
        ELSE IF ~unlink.res.ok
        THEN [exit |-> ExitCodeFrom(unlink.res.err), config |-> cfg, doc |-> d,
              links |-> unlink.links, failed |-> "symlink"]
        ELSE [exit |-> IF r.res.ok THEN "Success" ELSE ExitCodeFrom(r.res.err),
              config |-> r.config, doc |-> r.doc, links |-> unlink.links,
              failed |-> IF r.res.ok THEN None ELSE "config"]

\* Display for Alias: the parts of the printed line.
Display(alias) ==
    <<alias.name, alias.command, alias.description, alias.bin_path>>

\* List::execute: the lines printed.
ListExecute(cfg) ==
    IF is_empty(cfg.aliases) THEN <<"No shadows configured">>
    ELSE [i \in DOMAIN cfg.aliases |-> Display(cfg.aliases[i][2])]

\* -------------------------------------------------- execution of an alias

is_whitespace(c) == c = " "

\* The string of a sequence of characters.
RECURSIVE Str(_)
Str(chars) == IF chars = <<>> THEN "" ELSE Head(chars) \o Str(Tail(chars))

\* str::split_whitespace: the maximal runs of non-whitespace characters.
\* cur is the run being read.
RECURSIVE SplitFrom(_, _)
SplitFrom(s, cur) ==
    IF s = <<>> THEN (IF cur = <<>> THEN <<>> ELSE <<Str(cur)>>)
    ELSE IF is_whitespace(Head(s))
         THEN (IF cur = <<>> THEN <<>> ELSE <<Str(cur)>>) \o SplitFrom(Tail(s), <<>>)
         ELSE SplitFrom(Tail(s), Append(cur, Head(s)))

split_whitespace(s) == SplitFrom(s, <<>>)

\* What a child process can come to: it exits with a status, it is killed
\* by a signal (no status), or it cannot be spawned.
ChildOutcomes == {"exit0", "exit1", "signal", "spawn_failed"}

\* Command::status() and the match on it in execute_command.
StatusCode(child) ==
    CASE child = "exit0" -> "Success"
      [] child = "exit1" -> "CommandFailed"
      [] child = "signal" -> "CommandFailed"
      [] child = "spawn_failed" -> "CommandFailed"

\* The match of execute_original taking a child without a status (killed by
\* a signal) for one that succeeded.
StatusCodeOriginalNoStatusIsSuccess(child) ==
    CASE child = "exit0" -> "Success"
      [] child = "exit1" -> "CommandFailed"
      [] child = "signal" -> "Success"
      [] child = "spawn_failed" -> "CommandFailed"

\* Command::status() and the match on it in execute_original, written out
\* a second time in the source.
StatusCodeOriginal(child) ==
    CASE child = "exit0" -> "Success"
      [] child = "exit1" -> "CommandFailed"
      [] child = "signal" -> "CommandFailed"
      [] child = "spawn_failed" -> "CommandFailed"

\* execute_original running the replacement string for the name.
execute_originalRunsCommand(alias, args, child) ==
    [spawned |-> [cmd |-> Str(alias.command), args |-> args],
     exit |-> StatusCodeOriginal(child)]

\* Alias::execute_original: the command is the alias's name.
execute_original(alias, args, child) ==
    [spawned |-> [cmd |-> alias.name, args |-> args], exit |-> StatusCodeOriginal(child)]

\* execute_command with the caller's arguments chained before the
\* replacement's own.
execute_commandArgsFirst(alias, args, child) ==
    LET parts == split_whitespace(alias.command)
    IN  IF parts = <<>>
        THEN [spawned |-> Nil, exit |-> "InvalidArguments"]
        ELSE [spawned |-> [cmd |-> Head(parts), args |-> args \o Tail(parts)],
              exit |-> StatusCode(child)]

\* Alias::execute_command: the command is the first token of the
\* replacement, its arguments the other tokens and then args.
execute_command(alias, args, child) ==
    LET parts == split_whitespace(alias.command)
    IN  IF parts = <<>>
        THEN [spawned |-> Nil, exit |-> "InvalidArguments"]
        ELSE [spawned |-> [cmd |-> Head(parts), args |-> Tail(parts) \o args],
              exit |-> StatusCode(child)]

\* Alias::execute.
execute(alias, args, raw, child) ==
    IF raw THEN execute_original(alias, args, child)
    ELSE execute_command(alias, args, child)

\* ------------------------------------------------------------------ cli.rs

\* Vec::contains.
SeqContains(s, x) == \E i \in DOMAIN s : s[i] = x

\* Iterator::filter over the arguments, keeping those that are no raw flag.
RECURSIVE FilterRaw(_)
FilterRaw(args) ==
    IF args = <<>> THEN <<>>
    ELSE IF Head(args) # "--raw" /\ Head(args) # "-R"
         THEN <<Head(args)>> \o FilterRaw(Tail(args))
         ELSE FilterRaw(Tail(args))

\* from_env reading the raw flag at the front of the arguments only.
from_envFrontOnly(args) ==
    [args |-> FilterRaw(args),
     is_raw |-> args # <<>> /\ (Head(args) = "--raw" \/ Head(args) = "-R")]

\* ShadowedArgs::from_env on the arguments after the program name.
from_env(args) ==
    [args |-> FilterRaw(args),
     is_raw |-> SeqContains(args, "--raw") \/ SeqContains(args, "-R")]

\* execute_shadowed running a name the registry does not hold as a command
\* of its own.
execute_shadowedRunsUnknown(cfg, command, env_args, child) ==
    LET args == from_env(env_args)
        f == find(cfg.aliases, command)
        r == execute(f.alias, args.args, args.is_raw, child)
    IN  IF f.ok THEN [args |-> args, spawned |-> r.spawned, exit |-> r.exit]
        ELSE [args |-> args, spawned |-> [cmd |-> command, args |-> args.args],
              exit |-> StatusCodeOriginal(child)]

\* Cli::execute_shadowed.
execute_shadowed(cfg, command, env_args, child) ==
    LET args == from_env(env_args)
        f == find(cfg.aliases, command)
        r == execute(f.alias, args.args, args.is_raw, child)
    IN  IF f.ok THEN [args |-> args, spawned |-> r.spawned, exit |-> r.exit]
        ELSE [args |-> args, spawned |-> Nil, exit |-> ExitCodeFrom(f.err)]

\* ------------------------------------------------------------------- state

VARIABLES
    doc,        \* the document on disk, or NoDoc
    links,      \* what is at each link path <<directory, name>>
    pc,         \* "idle": no admin process; "loaded": one has loaded its config
    config,     \* the Config in the memory of the latest process
    last,       \* the latest command run and how it ended
    pre,        \* config, doc and links when the latest command was entered
    saved,      \* the Config that the latest successful save() wrote
    stdout,     \* the lines the latest command printed
    env_args,   \* a shadowed invocation: the arguments after the program name
    program,    \* a shadowed invocation: the program name
    child,      \* a shadowed invocation: what its child process comes to
    shadowed,   \* a shadowed invocation: the result, or None before it ran
    call,       \* the link functions on their own: the latest call
    procs,      \* two admin processes at once: where each is, and its memory
    writes,     \* two admin processes at once: whose saves wrote, in order
    path,       \* a command line run by the shell: the search path
    chain       \* a command line run by the shell: the processes it led to

vars == <<doc, links, pc, config, last, pre, saved, stdout,
          env_args, program, child, shadowed, call, procs, writes, path, chain>>

adminVars == <<doc, links, pc, config, last, pre, saved, stdout>>
shadowVars == <<env_args, program, child, shadowed>>
fsVars == <<call>>
raceVars == <<procs, writes>>
pathVars == <<path, chain>>

NoCommand ==
    [op |-> "none", original |-> None, replacement |-> <<>>, bin_path |-> None,
     exit |-> None, alias |-> Nil, failed |-> None]

NoLinks == [p \in Dirs \X Names |-> "none"]

\* A document edited by hand to use other settings.
EditedSettings == [bin_path |-> "alt", always_use_raw |-> TRUE]

InitDocs ==
    {NoDoc,
     Serialize([version |-> CURRENT_VERSION, settings |-> EditedSettings,
                aliases |-> AliasesDefault])}

InitAdmin ==
    /\ doc \in InitDocs
    /\ links = NoLinks
    /\ pc = "idle"
    /\ config = Nil
    /\ last = NoCommand
    /\ pre = Nil
    /\ saved = Nil
    /\ stdout = <<>>

\* The admin CLI: the program runs under its own name.
NoShadow ==
    /\ env_args = <<>>
    /\ program = "shadow"
    /\ child = None
    /\ shadowed = Nil

\* No call of the link functions on their own.
NoCall == call = Nil

\* No two processes at once.
NoRace == procs = Nil /\ writes = <<>>

\* No command line run by the shell.
NoPath == path = <<>> /\ chain = <<>>

Init == InitAdmin /\ NoShadow /\ NoCall /\ NoRace /\ NoPath

\* ------------------------------------------------- the admin CLI (main.rs)

\* main up to the dispatch: Config::load; a failure exits with ConfigError.
Load(fault) ==
    /\ pc = "idle"
    /\ \E r \in load(doc, fault) :
        /\ doc' = r.doc
        /\ config' = r.config
        /\ pc' = IF r.res.ok THEN "loaded" ELSE "idle"
        /\ last' = IF r.res.ok THEN NoCommand
                   ELSE [NoCommand EXCEPT !.op = "load", !.exit = "ConfigError"]
        /\ saved' = IF r.res.ok /\ doc = NoDoc THEN r.config ELSE saved
    /\ pre' = [config |-> Nil, doc |-> doc, links |-> links]
    /\ stdout' = <<>>
    /\ UNCHANGED <<links, shadowVars, fsVars, raceVars, pathVars>>

\* shadow add <original> <replacement> [--bin-path PATH], to the exit.
Add(original, replacement, bin_path, fault) ==
    /\ pc = "loaded"
    /\ program = "shadow"
    /\ \E r \in AddExecute(config, doc, links, original, replacement, bin_path, fault) :
        /\ config' = r.config
        /\ doc' = r.doc
        /\ links' = r.links
        /\ saved' = IF r.added THEN r.config ELSE saved
        /\ last' = [op |-> "add", original |-> original, replacement |-> replacement,
                    bin_path |-> bin_path, exit |-> r.exit, alias |-> r.alias,
                    failed |-> r.failed]
    /\ pre' = [config |-> config, doc |-> doc, links |-> links]
    /\ pc' = "idle"
    /\ stdout' = <<>>
    /\ UNCHANGED <<shadowVars, fsVars, raceVars, pathVars>>

\* shadow remove <original>, to the exit.
Remove(original, fault) ==
    /\ pc = "loaded"
    /\ program = "shadow"
    /\ LET r == RemoveExecute(config, doc, links, original, fault)
       IN  /\ config' = r.config
           /\ doc' = r.doc
           /\ links' = r.links
           /\ saved' = IF r.exit = "Success" THEN r.config ELSE saved
           /\ last' = [NoCommand EXCEPT !.op = "remove", !.original = original,
                                        !.exit = r.exit, !.failed = r.failed]
    /\ pre' = [config |-> config, doc |-> doc, links |-> links]
    /\ pc' = "idle"
    /\ stdout' = <<>>
    /\ UNCHANGED <<shadowVars, fsVars, raceVars, pathVars>>

\* shadow list, to the exit.
List ==
    /\ pc = "loaded"
    /\ program = "shadow"
    /\ stdout' = ListExecute(config)
    /\ last' = [NoCommand EXCEPT !.op = "list", !.exit = "Success"]
    /\ pre' = [config |-> config, doc |-> doc, links |-> links]
    /\ pc' = "idle"
    /\ UNCHANGED <<doc, links, config, saved, shadowVars, fsVars, raceVars, pathVars>>

Next ==
    \/ \E fault \in {"none", "read_config", "mkdir_config", "write_config"} : Load(fault)
    \/ \E original \in Names, replacement \in AdminReplacements,
          bin_path \in Dirs \cup {None}, fault \in Faults :
            Add(original, replacement, bin_path, fault)
    \/ \E original \in Names, fault \in Faults : Remove(original, fault)
    \/ List

Spec == Init /\ [][Next]_vars

\* ------------------------------------- ShadowedArgs::from_env on its own

InitArgs ==
    /\ doc = NoDoc
    /\ links = NoLinks
    /\ pc = "idle"
    /\ config = Nil
    /\ last = NoCommand
    /\ pre = Nil
    /\ saved = Nil
    /\ stdout = <<>>
    /\ env_args \in SeqsUpTo(ArgWords, MaxArgs)
    /\ program = "ll"
    /\ child = None
    /\ shadowed = Nil
    /\ NoCall
    /\ NoRace
    /\ NoPath

FromEnv ==
    /\ shadowed = Nil
    /\ shadowed' = [args |-> from_env(env_args), spawned |-> Nil, exit |-> None]
    /\ UNCHANGED <<adminVars, env_args, program, child, fsVars, raceVars, pathVars>>

SpecArgs == InitArgs /\ [][FromEnv]_vars

\* ------------------------------------------------ a shadowed invocation

\* The registry of a shadowed invocation: ll stands for a replacement.
ShadowConfigs ==
    {[version |-> CURRENT_VERSION, settings |-> SettingsDefault,
      aliases |-> <<<<"ll", AliasNew("ll", command, None, None)>>>>] :
        command \in SeqsUpTo(CmdChars, MaxCmdLen)}

InitShadow ==
    /\ \E c \in ShadowConfigs : doc = Serialize(c)
    /\ links = [NoLinks EXCEPT ![<<"bin", "ll">>] = "self"]
    /\ pc = "idle"
    /\ config = Nil
    /\ last = NoCommand
    /\ pre = Nil
    /\ saved = Nil
    /\ stdout = <<>>
    /\ env_args \in SeqsUpTo(ArgWords, MaxShadowArgs)
    /\ program \in Names
    /\ child = None
    /\ shadowed = Nil
    /\ NoCall
    /\ NoRace
    /\ NoPath

\* main under another name than its own: Cli::execute_shadowed, to the exit.
\* outcome is what the child process comes to if one is spawned.
ExecuteShadowed(outcome) ==
    /\ pc = "loaded"
    /\ program # "shadow"
    /\ LET r == execute_shadowed(config, program, env_args, outcome)
       IN  /\ shadowed' = r
           /\ child' = IF r.spawned = Nil THEN None ELSE outcome
    /\ pc' = "exited"
    /\ UNCHANGED <<doc, links, config, last, pre, saved, stdout, env_args, program,
                   fsVars, raceVars, pathVars>>

NextShadow ==
    \/ \E fault \in {"none", "read_config"} : Load(fault)
    \/ \E outcome \in ChildOutcomes : ExecuteShadowed(outcome)

SpecShadow == InitShadow /\ [][NextShadow]_vars

\* ------------------------------------- the link functions on their own

\* The aliases and settings the link functions are called with: the link
\* directory comes from the alias or from the settings.
FsAliases ==
    {AliasNew(name, <<"l", "s">>, None, bin_path) :
        name \in Names, bin_path \in {None, "alt"}}

FsSettings == {SettingsDefault, EditedSettings}

\* The link directories hold under the name ll whatever was put there
\* before: nothing, a link to this executable, a link to another file, a
\* link whose target is gone, or a regular file.
InitFs ==
    /\ links \in {lk \in [Dirs \X Names -> LinkKinds] :
                    \A dir \in Dirs : lk[<<dir, "gs">>] = "none"}
    /\ call = Nil
    /\ doc = NoDoc
    /\ pc = "idle"
    /\ config = Nil
    /\ last = NoCommand
    /\ pre = Nil
    /\ saved = Nil
    /\ stdout = <<>>
    /\ NoShadow
    /\ NoRace
    /\ NoPath

\* How the call before this one ended, when it was the same function on
\* the same alias with the same settings; Nil when it was not.
Repeated(op, alias, settings) ==
    IF call # Nil /\ call.op = op /\ call.alias = alias /\ call.settings = settings
    THEN [ok |-> call.res.ok, fault |-> call.fault]
    ELSE Nil

\* A call of Alias::create_symlink.
CreateSymlink(alias, settings, fault) ==
    /\ LET r == create_symlink(alias, settings, links, fault)
       IN  /\ links' = r.links
           /\ call' = [op |-> "create_symlink", alias |-> alias, settings |-> settings,
                       fault |-> fault, res |-> r.res, calls |-> r.calls,
                       before |-> links,
                       repeated |-> Repeated("create_symlink", alias, settings)]
    /\ UNCHANGED <<doc, pc, config, last, pre, saved, stdout, shadowVars, raceVars, pathVars>>

\* A call of Alias::remove_symlink.
RemoveSymlink(alias, settings, fault) ==
    /\ LET r == remove_symlink(alias, settings, links, fault)
       IN  /\ links' = r.links
           /\ call' = [op |-> "remove_symlink", alias |-> alias, settings |-> settings,
                       fault |-> fault, res |-> r.res, calls |-> r.calls,
                       before |-> links,
                       repeated |-> Repeated("remove_symlink", alias, settings)]
    /\ UNCHANGED <<doc, pc, config, last, pre, saved, stdout, shadowVars, raceVars, pathVars>>

NextFs ==
    \/ \E alias \in FsAliases, settings \in FsSettings,
          fault \in {"none", "mkdir_bin", "current_exe", "remove_file", "symlink"} :
            CreateSymlink(alias, settings, fault)
    \/ \E alias \in FsAliases, settings \in FsSettings,
          fault \in {"none", "remove_file"} :
            RemoveSymlink(alias, settings, fault)

SpecFs == InitFs /\ [][NextFs]_vars

\* ------------------------------------------- two admin processes at once

\* Two runs of main under its own name, each with one add or remove.
\* Nothing in the source locks the document, so their file-system calls
\* interleave: the read of load, the link calls, the write of save.
Procs == {"p", "q"}

RaceReplacements == {<<"l", "s">>, <<"s">>}

\* The documents the two processes find: an empty registry, or ll.
RaceConfigs ==
    {[version |-> CURRENT_VERSION, settings |-> SettingsDefault, aliases |-> AliasesDefault],
     [version |-> CURRENT_VERSION, settings |-> SettingsDefault,
      aliases |-> <<<<"ll", AliasNew("ll", <<"l", "s">>, None, None)>>>>]}

\* The link directories of the two processes: an empty document gives the
\* derived default of Settings, whose bin_path is the empty path.
RaceDirs == Dirs \cup {SettingsDeriveDefault.bin_path}

InitRace ==
    /\ \E c \in RaceConfigs :
        /\ doc = Serialize(c)
        /\ links = [q \in RaceDirs \X Names |->
                      IF q[1] = "bin" /\ contains(c.aliases, q[2]) THEN "self"
                      ELSE "none"]
    /\ procs = [q \in Procs |-> [pc |-> "start", config |-> Nil, op |-> None,
                                 original |-> None, exit |-> None, read |-> NoDoc]]
    /\ writes = <<>>
    /\ pc = "idle"
    /\ config = Nil
    /\ last = NoCommand
    /\ pre = Nil
    /\ saved = Nil
    /\ stdout = <<>>
    /\ NoShadow
    /\ NoCall
    /\ NoPath

\* main up to the dispatch in process p: Config::load reads the document.
RaceLoad(p) ==
    /\ procs[p].pc = "start"
    /\ \E r \in load(doc, "none") :
        /\ doc' = r.doc
        /\ procs' = [procs EXCEPT ![p].pc = IF r.res.ok THEN "loaded" ELSE "done",
                                  ![p].config = r.config,
                                  ![p].exit = IF r.res.ok THEN None ELSE "ConfigError",
                                  ![p].read = doc]
    /\ UNCHANGED <<links, writes, pc, config, last, pre, saved, stdout, shadowVars, fsVars, pathVars>>

\* Add::execute in process p up to the save of Config::add: the check, the
\* link, the insert in memory.
RaceAdd(p, original, replacement) ==
    /\ procs[p].pc = "loaded"
    /\ LET cfg == procs[p].config
           shadow == AliasNew(original, replacement, None, None)
           link == create_symlink(shadow, cfg.settings, links, "none")
       IN  IF contains(cfg.aliases, original)
           THEN /\ procs' = [procs EXCEPT ![p].pc = "done", ![p].op = "add",
                                          ![p].original = original,
                                          ![p].exit = "DuplicateCommand"]
                /\ UNCHANGED links
           ELSE IF ~link.res.ok
           THEN /\ procs' = [procs EXCEPT ![p].pc = "done", ![p].op = "add",
                                          ![p].original = original,
                                          ![p].exit = ExitCodeFrom(link.res.err)]
                /\ links' = link.links
           ELSE /\ \E a \in insert(cfg.aliases, original, shadow) :
                     procs' = [procs EXCEPT ![p].pc = "saving", ![p].op = "add",
                                           ![p].original = original,
                                           ![p].config = [cfg EXCEPT !.aliases = a]]
                /\ links' = link.links
    /\ UNCHANGED <<doc, writes, pc, config, last, pre, saved, stdout, shadowVars, fsVars, pathVars>>

\* Remove::execute in process p up to the save of Config::remove: the
\* lookup, the removal of the link, the removal in memory.
RaceRemove(p, original) ==
    /\ procs[p].pc = "loaded"
    /\ LET cfg == procs[p].config
           f == find(cfg.aliases, original)
           unlink == remove_symlink(f.alias, cfg.settings, links, "none")
       IN  IF ~f.ok
           THEN /\ procs' = [procs EXCEPT ![p].pc = "done", ![p].op = "remove",
                                          ![p].original = original,
                                          ![p].exit = ExitCodeFrom(f.err)]
                /\ UNCHANGED links
           ELSE IF ~unlink.res.ok
           THEN /\ procs' = [procs EXCEPT ![p].pc = "done", ![p].op = "remove",
                                          ![p].original = original,
                                          ![p].exit = ExitCodeFrom(unlink.res.err)]
                /\ links' = unlink.links
           ELSE /\ procs' = [procs EXCEPT ![p].pc = "saving", ![p].op = "remove",
                                          ![p].original = original,
                                          ![p].config =
                                            [cfg EXCEPT !.aliases = remove(cfg.aliases, original)]]
                /\ links' = unlink.links
    /\ UNCHANGED <<doc, writes, pc, config, last, pre, saved, stdout, shadowVars, fsVars, pathVars>>

\* fs::write in the save of process p opens the document with
\* File::create, which truncates it.
RaceTruncate(p) ==
    /\ procs[p].pc = "saving"
    /\ doc' = EmptyDoc
    /\ procs' = [procs EXCEPT ![p].pc = "writing"]
    /\ UNCHANGED <<links, writes, pc, config, last, pre, saved, stdout, shadowVars, fsVars, pathVars>>

\* write_all in the save of process p has written a part of the text.
RaceWritePart(p) ==
    /\ procs[p].pc = "writing"
    /\ doc # TornDoc
    /\ doc' = TornDoc
    /\ UNCHANGED <<links, procs, writes, pc, config, last, pre, saved, stdout,
                   shadowVars, fsVars, pathVars>>

\* The save that ends Config::add or Config::remove in process p, and the
\* exit of the process: the whole text is written, or the save failed
\* before the document was opened.
RaceSave(p, fault) ==
    /\ procs[p].pc = IF fault = "none" THEN "writing" ELSE "saving"
    /\ LET s == save(procs[p].config, doc, fault)
       IN  /\ doc' = s.doc
           /\ writes' = IF s.res.ok THEN Append(writes, p) ELSE writes
           /\ procs' = [procs EXCEPT ![p].pc = "done",
                                     ![p].exit = IF s.res.ok THEN "Success"
                                                 ELSE ExitCodeFrom(s.res.err)]
    /\ UNCHANGED <<links, pc, config, last, pre, saved, stdout, shadowVars, fsVars, pathVars>>

NextRace ==
    \/ \E p \in Procs : RaceLoad(p)
    \/ \E p \in Procs, original \in Names, replacement \in RaceReplacements :
            RaceAdd(p, original, replacement)
    \/ \E p \in Procs, original \in Names : RaceRemove(p, original)
    \/ \E p \in Procs : RaceTruncate(p)
    \/ \E p \in Procs : RaceWritePart(p)
    \/ \E p \in Procs, fault \in {"none", "write_config"} : RaceSave(p, fault)

SpecRace == InitRace /\ [][NextRace]_vars

\* ------------------------------------- a command line run by the shell

\* The directory of the real binaries; it holds one for every command name.
RealDir == "usr"

\* The search path holds the link directory and the directory of the real
\* binaries, in either order.
SearchPaths == {<<"bin", RealDir>>, <<RealDir, "bin">>}

\* What Command::new(name) runs: the first entry called name on the search
\* path pth.  A link to this executable runs the tool under that name.
RECURSIVE Resolve(_, _, _)
Resolve(name, pth, lk) ==
    IF pth = <<>> THEN "none"
    ELSE IF Head(pth) = RealDir THEN "real"
    ELSE IF <<Head(pth), name>> \in DOMAIN lk /\ lk[<<Head(pth), name>>] = "self"
         THEN "tool"
    ELSE Resolve(name, Tail(pth), lk)

\* The process that name with args becomes: the tool under the name name,
\* not yet at its dispatch, or the real binary.
Process(name, args, pth, lk) ==
    LET image == Resolve(name, pth, lk)
    IN  [program |-> name, args |-> args, image |-> image,
         mode |-> IF image = "tool" THEN "new" ELSE image]

InitPath ==
    /\ \E c \in ShadowConfigs : doc = Serialize(c)
    /\ links = [NoLinks EXCEPT ![<<"bin", "ll">>] = "self"]
    /\ path \in SearchPaths
    /\ chain = <<>>
    /\ env_args \in SeqsUpTo(ArgWords, MaxShadowArgs)
    /\ program = "ll"
    /\ child = None
    /\ shadowed = Nil
    /\ pc = "idle"
    /\ config = Nil
    /\ last = NoCommand
    /\ pre = Nil
    /\ saved = Nil
    /\ stdout = <<>>
    /\ NoCall
    /\ NoRace

\* The shell runs the command line: program with env_args.
ShellRuns ==
    /\ chain = <<>>
    /\ chain' = <<Process(program, env_args, path, links)>>
    /\ UNCHANGED <<adminVars, shadowVars, fsVars, raceVars, path>>

\* main in the latest process, which is the tool under another name than
\* its own: Config::load, then Cli::execute_shadowed up to the spawn of the
\* child, which the search path resolves.
RunTool ==
    /\ chain # <<>>
    /\ LET i == Len(chain)
           pr == chain[i]
       IN  /\ pr.image = "tool"
           /\ pr.mode = "new"
           /\ \E r \in load(doc, "none") :
                LET x == execute_shadowed(r.config, pr.program, pr.args, "exit0")
                IN  IF x.spawned = Nil
                    THEN chain' = [chain EXCEPT ![i].mode = "none"]
                    ELSE /\ i < MaxDepth
                         /\ chain' = Append(
                                [chain EXCEPT ![i].mode = IF x.args.is_raw THEN "raw"
                                                          ELSE "replacement"],
                                Process(x.spawned.cmd, x.spawned.args, path, links))
    /\ UNCHANGED <<adminVars, shadowVars, fsVars, raceVars, path>>

NextPath == ShellRuns \/ RunTool

SpecPath == InitPath /\ [][NextPath]_vars

\* ------------------------------------------------------ the admin claims

\* The command op has returned.
Returned(op) == pc = "idle" /\ last.op = op

\* Every entry of the registry before whose key is not name is in the
\* registry after, unchanged, and the registry after has no other key
\* except those of extra.
OthersUnchanged(before, after, name, extra) ==
    /\ Keys(after) = (Keys(before) \ {name}) \cup extra
    /\ \A k \in Keys(before) \ {name} : Get(after, k) = Get(before, k)

\* C1: when an add succeeds, the registry contains the original, find
\* returns an alias with the name, the replacement and the bin_path of the
\* alias handed to Config::add, and every other entry is as it was.
AddThenFind ==
    (Returned("add") /\ last.exit = "Success") =>
        LET f == find(config.aliases, last.original)
        IN  /\ ~contains(pre.config.aliases, last.original)
            /\ contains(config.aliases, last.original)
            /\ f.ok
            /\ f.alias.name = last.original
            /\ f.alias.command = last.replacement
            /\ f.alias.bin_path = last.alias.bin_path
            /\ f.alias = last.alias
            /\ OthersUnchanged(pre.config.aliases, config.aliases,
                               last.original, {last.original})

\* An add succeeded in a registry that already held another alias.
AddThenFindWitness ==
    /\ Returned("add")
    /\ last.exit = "Success"
    /\ last.bin_path # None
    /\ Keys(pre.config.aliases) # {}

\* C2: an add of an original that is already in the registry ends with
\* DuplicateCommand (129); the registry still has exactly one entry for it,
\* the one it had, and the document and the links are as they were.
AddDuplicateRejected ==
    (Returned("add") /\ contains(pre.config.aliases, last.original)) =>
        /\ last.exit = "DuplicateCommand"
        /\ ExitCodeValue(last.exit) = 129
        /\ Cardinality({i \in DOMAIN config.aliases :
                            config.aliases[i][1] = last.original}) = 1
        /\ Get(config.aliases, last.original) = Get(pre.config.aliases, last.original)
        /\ config = pre.config
        /\ doc = pre.doc
        /\ links = pre.links

\* A second add of an original was rejected though it gave another
\* replacement and another directory than the first.
AddDuplicateWitness ==
    /\ Returned("add")
    /\ contains(pre.config.aliases, last.original)
    /\ Get(pre.config.aliases, last.original).command # last.replacement
    /\ last.bin_path # None
    /\ EffectiveBinPath(Get(pre.config.aliases, last.original), pre.config.settings)
         # last.bin_path
    /\ last.exit = "DuplicateCommand"

\* C3: when a remove succeeds, find on the name gives AliasNotFound,
\* contains is false, and every other entry is as it was.
RemoveThenFind ==
    (Returned("remove") /\ last.exit = "Success") =>
        LET f == find(config.aliases, last.original)
        IN  /\ contains(pre.config.aliases, last.original)
            /\ ~f.ok
            /\ f.err = "AliasNotFound"
            /\ ~contains(config.aliases, last.original)
            /\ OthersUnchanged(pre.config.aliases, config.aliases, last.original, {})

\* A remove succeeded in a registry that held another alias too.
RemoveThenFindWitness ==
    /\ Returned("remove")
    /\ last.exit = "Success"
    /\ Keys(pre.config.aliases) \ {last.original} # {}

\* C4: a remove of an original that is not in the registry ends with exit
\* code 127 and the registry, the document and the links are as they were.
RemoveAbsentChangesNothing ==
    (Returned("remove") /\ ~contains(pre.config.aliases, last.original)) =>
        /\ last.exit = "CommandNotFound"
        /\ ExitCodeValue(last.exit) = 127
        /\ config = pre.config
        /\ doc = pre.doc
        /\ links = pre.links

\* A remove of an absent original was run while another alias was
\* registered and linked.
RemoveAbsentWitness ==
    /\ Returned("remove")
    /\ ~contains(pre.config.aliases, last.original)
    /\ Keys(pre.config.aliases) # {}
    /\ \E p \in DOMAIN links : links[p] = "self"

\* C5: when an add or a remove has returned Success, the document is the
\* serialization of the process's config, and it reads back as the same
\* version, settings and aliases.
SuccessMeansPersisted ==
    ((Returned("add") \/ Returned("remove")) /\ last.exit = "Success") =>
        /\ doc # NoDoc
        /\ doc = Serialize(config)
        /\ \A c \in Deserialize(doc) :
            /\ c.version = config.version
            /\ c.settings = config.settings
            /\ AsMap(c.aliases) = AsMap(config.aliases)

\* A mutating command returned Success and changed the document.
SuccessMeansPersistedWitness ==
    /\ Returned("add") \/ Returned("remove")
    /\ last.exit = "Success"
    /\ doc # pre.doc
    /\ pre.doc # NoDoc

\* The registry of the document on disk.
PersistedConfig == CHOOSE c \in Deserialize(doc) : TRUE

Persisted(dir, name) ==
    /\ doc # NoDoc
    /\ contains(PersistedConfig.aliases, name)
    /\ EffectiveBinPath(Get(PersistedConfig.aliases, name), PersistedConfig.settings) = dir

\* C6: after any sequence of add and remove commands, also failed ones, a
\* symlink named original is in a directory exactly when the persisted
\* registry holds original with that effective directory.
SymlinkIffPersisted ==
    pc = "idle" =>
        \A dir \in Dirs, name \in Names :
            (links[<<dir, name>>] # "none") <=> Persisted(dir, name)

\* C7: a config read by load() after a save() is the config that save()
\* wrote: the same version, settings, aliases and order of aliases.
RoundTripKeepsOrder ==
    (pc = "loaded" /\ saved # Nil) => config = saved

\* ------------------------------------------------- the shadow-mode claims

IsRawFlag(word) == word = "--raw" \/ word = "-R"

\* The positions of s whose element is no raw flag.
KeptPositions(s) == {i \in DOMAIN s : ~IsRawFlag(s[i])}

\* out is s with the raw flags deleted: its j-th element is the element of
\* s at the j-th kept position.
IsStripped(out, s) ==
    /\ Len(out) = Cardinality(KeptPositions(s))
    /\ \A i \in KeptPositions(s) :
         out[Cardinality({k \in KeptPositions(s) : k <= i})] = s[i]

\* C8: the forwarded arguments are the input with every "--raw" and "-R"
\* deleted and the order of the others kept, and raw is true exactly when
\* the input holds at least one of them.
RawFlagsStripped ==
    shadowed # Nil =>
        /\ IsStripped(shadowed.args.args, env_args)
        /\ shadowed.args.is_raw <=> (\E i \in DOMAIN env_args : IsRawFlag(env_args[i]))

\* Both flags were given, around and between two other arguments.
RawFlagsStrippedWitness ==
    /\ shadowed # Nil
    /\ env_args = <<"--raw", "foo", "-R", "bar">>
    /\ shadowed.args.args = <<"foo", "bar">>
    /\ shadowed.args.is_raw

\* The alias a shadowed invocation ran, once it has run and found one.
RanAlias == Get(config.aliases, program)

Ran(raw) ==
    /\ pc = "exited"
    /\ contains(config.aliases, program)
    /\ shadowed.args.is_raw = raw

\* The positions of s where a token starts: a character that is no
\* whitespace, at the start or after whitespace.
TokenStarts(s) ==
    {i \in DOMAIN s : ~is_whitespace(s[i]) /\ (i = 1 \/ is_whitespace(s[i - 1]))}

\* The position where the n-th token of s starts.
NthStart(s, n) ==
    CHOOSE i \in TokenStarts(s) : Cardinality({k \in TokenStarts(s) : k <= i}) = n

\* The token of s that starts at i: the characters from i up to the next
\* whitespace or the end.
TokenAt(s, i) ==
    LET end == CHOOSE j \in i..Len(s) :
                   /\ \A k \in i..j : ~is_whitespace(s[k])
                   /\ j = Len(s) \/ is_whitespace(s[j + 1])
    IN  Str(SubSeq(s, i, end))

\* C9: without raw, the spawned command is the first token of the
\* replacement and its arguments are the other tokens followed by the
\* stripped arguments; a replacement without tokens spawns nothing and
\* ends with InvalidArguments (64).
ReplacementSpawned ==
    Ran(FALSE) =>
        LET command == RanAlias.command
            n == Cardinality(TokenStarts(command))
            stripped == shadowed.args.args
        IN  /\ IsStripped(stripped, env_args)
            /\ IF n = 0
               THEN /\ shadowed.spawned = Nil
                    /\ child = None
                    /\ shadowed.exit = "InvalidArguments"
                    /\ ExitCodeValue(shadowed.exit) = 64
               ELSE /\ shadowed.spawned # Nil
                    /\ shadowed.spawned.cmd = TokenAt(command, NthStart(command, 1))
                    /\ Len(shadowed.spawned.args) = n - 1 + Len(stripped)
                    /\ \A j \in 2..n :
                         shadowed.spawned.args[j - 1] = TokenAt(command, NthStart(command, j))
                    /\ \A j \in 1..Len(stripped) :
                         shadowed.spawned.args[n - 1 + j] = stripped[j]

\* A replacement of two tokens ran with two arguments.
ReplacementSpawnedWitness ==
    /\ Ran(FALSE)
    /\ RanAlias.command = <<"l", " ", "s">>
    /\ env_args = <<"foo", "bar">>
    /\ shadowed.spawned = [cmd |-> "l", args |-> <<"s", "foo", "bar">>]

\* A replacement of whitespace alone ran and nothing was spawned.
ReplacementEmptyWitness ==
    /\ Ran(FALSE)
    /\ RanAlias.command = <<" ", " ">>
    /\ shadowed.spawned = Nil
    /\ shadowed.exit = "InvalidArguments"

\* C10: with raw, the spawned command is the alias's original name, its
\* arguments are the stripped arguments alone, and a failed spawn ends with
\* CommandFailed.
RawSpawnsOriginal ==
    Ran(TRUE) =>
        /\ shadowed.spawned # Nil
        /\ shadowed.spawned.cmd = program
        /\ RanAlias.name = program
        /\ IsStripped(shadowed.spawned.args, env_args)
        /\ child = "spawn_failed" => shadowed.exit = "CommandFailed"

\* A raw invocation of an alias whose replacement has another first token
\* and an argument.
RawSpawnsOriginalWitness ==
    /\ Ran(TRUE)
    /\ RanAlias.command = <<"s", " ", "l">>
    /\ env_args = <<"foo", "-R">>
    /\ shadowed.spawned = [cmd |-> "ll", args |-> <<"foo">>]
    /\ child = "spawn_failed"

\* ---------------------------------------------------- shadow mode, exit codes

\* C11: in shadow mode a program name the registry does not hold ends with
\* CommandNotFound, exit code 127, and no child is spawned, whatever the
\* arguments are, raw flags included.
UnknownNameNotFound ==
    (pc = "exited" /\ shadowed # Nil /\ ~contains(config.aliases, program)) =>
        /\ shadowed.exit = "CommandNotFound"
        /\ ExitCodeValue(shadowed.exit) = 127
        /\ shadowed.spawned = Nil

\* A name the registry does not hold was invoked with a raw flag among its
\* arguments, while the registry holds another alias.
UnknownNameNotFoundWitness ==
    /\ pc = "exited"
    /\ shadowed # Nil
    /\ program = "gs"
    /\ ~contains(config.aliases, program)
    /\ ~is_empty(config.aliases)
    /\ env_args = <<"foo", "--raw">>
    /\ shadowed.exit = "CommandNotFound"

\* C12: a spawned child's outcome decides the exit code the same way with
\* and without raw: status 0 gives Success (0); a non-zero status, the end
\* by a signal and the failure to spawn give CommandFailed (128).
ChildOutcomeExitCode ==
    (pc = "exited" /\ shadowed # Nil /\ shadowed.spawned # Nil) =>
        /\ child \in ChildOutcomes
        /\ child = "exit0" =>
              shadowed.exit = "Success" /\ ExitCodeValue(shadowed.exit) = 0
        /\ child \in {"exit1", "signal", "spawn_failed"} =>
              shadowed.exit = "CommandFailed" /\ ExitCodeValue(shadowed.exit) = 128

\* A raw invocation whose child was killed by a signal.
ChildOutcomeExitCodeWitness ==
    /\ Ran(TRUE)
    /\ shadowed.spawned # Nil
    /\ child = "signal"
    /\ shadowed.exit = "CommandFailed"

\* ------------------------------------------------- add, list, the first run

\* The replacement has no token: it is empty or whitespace alone.
NoToken(replacement) == \A i \in DOMAIN replacement : is_whitespace(replacement[i])

\* C14: add with a replacement that is empty or whitespace alone ends with
\* an error exit code and has changed nothing: no symlink is created, the
\* registry and the document are those of the entry state.
EmptyReplacementRejected ==
    (Returned("add") /\ NoToken(last.replacement)) =>
        /\ last.exit # "Success"
        /\ links = pre.links
        /\ config = pre.config
        /\ doc = pre.doc

\* The rank of a name in ascending order.
NameRank(name) == CASE name = "gs" -> 1 [] name = "ll" -> 2

\* The lines list printed are one per alias, in ascending order of the
\* original name.
ListInOrder ==
    (Returned("list") /\ ~is_empty(config.aliases)) =>
        /\ Len(stdout) = Cardinality(Keys(config.aliases))
        /\ {stdout[i][1] : i \in DOMAIN stdout} = Keys(config.aliases)
        /\ \A i, j \in DOMAIN stdout :
              i < j => NameRank(stdout[i][1]) < NameRank(stdout[j][1])

\* C15: list ends with Success and changes nothing; with an empty registry
\* it prints exactly "No aliases configured", and else one line per alias,
\* in ascending order of the original name.
ListSortedAndHarmless ==
    /\ Returned("list") =>
          /\ last.exit = "Success" /\ ExitCodeValue(last.exit) = 0
          /\ config = pre.config /\ doc = pre.doc /\ links = pre.links
          /\ is_empty(config.aliases) => stdout = <<"No aliases configured">>
    /\ ListInOrder

\* The configuration Config::new makes.
FirstRunConfig ==
    [version |-> CURRENT_VERSION, settings |-> SettingsDefault, aliases |-> AliasesDefault]

\* C16: a load that finds no document returns the default settings with
\* an empty registry and has written a document; the load that follows
\* finds that document, parses it, and returns the same settings and an
\* empty registry.
FirstRunThenLoad ==
    /\ (pc = "loaded" /\ pre.doc = NoDoc) =>
          /\ config = FirstRunConfig
          /\ doc # NoDoc
          /\ doc = Serialize(config)
          /\ saved = config
    /\ (pc = "loaded" /\ pre.doc # NoDoc /\ saved = FirstRunConfig) =>
          /\ doc = pre.doc
          /\ config.settings = saved.settings
          /\ is_empty(config.aliases)

\* The second load after a first run: the document the first load wrote
\* was there and gave the first run's configuration again.
FirstRunThenLoadWitness ==
    /\ pc = "loaded"
    /\ pre.doc = Serialize(FirstRunConfig)
    /\ saved = FirstRunConfig
    /\ config = FirstRunConfig
    /\ doc = pre.doc

\* C20: an add or a remove that fails in its symlink step ends with
\* ConfigError, exit code 2.
SymlinkFailureIsConfigError ==
    ((Returned("add") \/ Returned("remove")) /\ last.failed = "symlink") =>
        /\ last.exit = "ConfigError"
        /\ ExitCodeValue(last.exit) = 2

\* ------------------------------------------------------ the link functions

\* The link path of the latest call.
CallPath == link_path(call.alias, EffectiveBinPath(call.alias, call.settings))

\* The latest call was op, with no I/O call made to fail.
Called(op) == call # Nil /\ call.op = op /\ call.fault = "none"

\* C13: create_symlink called twice in a row for the same alias with the
\* same settings returns success both times; after each call the entry at
\* the link path is a symlink to the current executable, and the second
\* call removes nothing and creates nothing.
CreateTwice ==
    (Called("create_symlink") /\ call.repeated # Nil /\ call.repeated.fault = "none") =>
        /\ call.repeated.ok
        /\ call.before[CallPath] = "self"
        /\ call.res.ok
        /\ call.calls = <<>>
        /\ links = call.before
        /\ links[CallPath] = "self"

\* C18: an entry at the link path that is a regular file, a symlink to
\* another target or a symlink whose target does not exist is removed by
\* create_symlink, the new link is created, success is returned and the
\* link path is a symlink to the current executable.
ForeignEntryReplaced ==
    (Called("create_symlink") /\ call.before[CallPath] \in {"file", "other", "dangling"}) =>
        /\ call.res.ok
        /\ call.calls = <<"remove_file", "symlink">>
        /\ links = [call.before EXCEPT ![CallPath] = "self"]

\* C19: remove_symlink returns success when nothing is at the link path;
\* whenever it returns success nothing is left at the link path, a symlink
\* whose target is gone included; a second call returns success too and
\* changes nothing.
RemoveLeavesNothing ==
    (call # Nil /\ call.op = "remove_symlink") =>
        /\ call.before[CallPath] = "none" => call.res.ok
        /\ call.res.ok => links[CallPath] = "none"
        /\ (call.repeated # Nil /\ call.repeated.ok) =>
              call.res.ok /\ links = call.before

\* ------------------------------------------- two admin processes at once

\* The document holds an alias under name.
InDoc(name) == "aliases" \in DOMAIN doc /\ name \in DOMAIN doc.aliases

\* A save is at work on the document.
Writing == \E p \in Procs : procs[p].pc = "writing"

Complete(d) == \E c \in Deserialize(d) : Serialize(c) = d

\* C21: a load by another process at any point of a save reads a whole
\* document, the one before the save or the one after it, never an empty
\* or partly written one.
SaveIsAtomic ==
    \A p \in Procs :
        procs[p].pc # "start" =>
            /\ procs[p].read # EmptyDoc
            /\ procs[p].read # TornDoc
            /\ Complete(procs[p].read)

\* ------------------------------------------------- raw mode and the links

\* C22: the process a raw invocation of a shadowed name spawns is the real
\* binary of that name, not the tool again under its own link, and nothing
\* after it runs the replacement, whatever the order of the search path.
RawRunsRealBinary ==
    \A i \in DOMAIN chain :
        chain[i].mode = "raw" =>
            /\ i + 1 \in DOMAIN chain
            /\ chain[i + 1].program = chain[i].program
            /\ chain[i + 1].image = "real"
            /\ \A j \in DOMAIN chain : j > i => chain[j].mode # "replacement"

====
